---- MODULE Spec2Model ----
(***************************************************************************)
(* A model of the salsa20 crate's SalsaCore (src/salsa20/src/lib.rs): the  *)
(* key-expansion constants, the key schedule, raw-state construction, the  *)
(* 64-bit block counter kept in two 32-bit state words, seek, and          *)
(* remaining_blocks, on both state layouts the crate compiles to.          *)
(*                                                                         *)
(* Number representation.  TLC integers are 32-bit signed, so a Rust u32   *)
(* or u64 cannot be a TLC integer.  Unsigned values are little-endian      *)
(* tuples of 16-bit limbs and keep their exact width:                      *)
(*     u8  : 0..255                                                        *)
(*     u32 : <<lo16, hi16>>            value lo16 + 2^16*hi16              *)
(*     u64 : <<l1, l2, l3, l4>>        value SUM l_i * 2^(16*(i-1))        *)
(* Rust arrays are 0-indexed, TLA+ sequences 1-indexed: word i of the      *)
(* Rust state array is state[i+1] here (see W).                            *)
(***************************************************************************)
EXTENDS Integers, Sequences, FiniteSets, TLC

\* ------------------------------------------------------------------------
\* Fixed-width unsigned arithmetic
\* ------------------------------------------------------------------------

\* F(v), with v computed once: `let x = v; F(x)`.
Let(v, F(_)) == CHOOSE r \in {F(x) : x \in {v}} : TRUE

\* One 16-bit limb holds values 0 .. LIMB-1.
LIMB == 256 * 256

\* u32 zero / u64 zero.
Zero32 == <<0, 0>>
Zero64 == <<0, 0, 0, 0>>

\* u64::MAX
U64_MAX == <<LIMB - 1, LIMB - 1, LIMB - 1, LIMB - 1>>

\* u32::from_le_bytes([b0, b1, b2, b3])
from_le_bytes(b0, b1, b2, b3) == <<b0 + 256 * b1, b2 + 256 * b3>>

\* `w as u64` for a u32 w (zero extension).
as_u64(w) == <<w[1], w[2], 0, 0>>

\* `x as u32` for a u64 x (truncation to the low 32 bits).
as_u32(x) == <<x[1], x[2]>>

\* `x << 32` on u64 (the high 32 bits are shifted out).
shl32(x) == <<0, 0, x[1], x[2]>>

\* `x >> 32` on u64.
shr32(x) == <<x[3], x[4], 0, 0>>

\* `x & 0xffff_ffff` on u64.
and_ffffffff(x) == <<x[1], x[2], 0, 0>>

\* Limb-wise addition with carry.  The result has one limb more than the
\* operands: the last limb is the carry out (0 or 1).
RECURSIVE AddLimbs(_, _, _)
AddLimbs(a, b, carry) ==
    IF a = <<>> THEN <<carry>>
    ELSE LET s == Head(a) + Head(b) + carry
         IN  <<s % LIMB>> \o AddLimbs(Tail(a), Tail(b), s \div LIMB)

\* Whether a + b overflows the width of a and b.
AddOverflows(a, b) == AddLimbs(a, b, 0)[Len(a) + 1] = 1

\* Wrapping addition at the width of the operands (u32 or u64).
wrapping_add(a, b) == SubSeq(AddLimbs(a, b, 0), 1, Len(a))

\* u32::wrapping_add
wrapping_add32(a, b) ==
    LET lo == a[1] + b[1]
        hi == a[2] + b[2] + (lo \div LIMB)
    IN  <<lo % LIMB, hi % LIMB>>

\* Limb-wise subtraction a - b with borrow, for a >= b.
RECURSIVE SubLimbs(_, _, _)
SubLimbs(a, b, borrow) ==
    IF a = <<>> THEN <<>>
    ELSE LET d == Head(a) - Head(b) - borrow
         IN  IF d >= 0 THEN <<d>> \o SubLimbs(Tail(a), Tail(b), 0)
             ELSE <<d + LIMB>> \o SubLimbs(Tail(a), Tail(b), 1)

\* u64 subtraction a - b where a >= b (u64::MAX - x never underflows).
sub64(a, b) == SubLimbs(a, b, 0)

\* A small natural number as a u64.
U64(n) == <<n % LIMB, n \div LIMB, 0, 0>>

\* Bitwise xor of two naturals of equal bit width.
RECURSIVE XorNat(_, _)
XorNat(a, b) ==
    IF a = 0 THEN b
    ELSE IF b = 0 THEN a
    ELSE ((a + b) % 2) + 2 * XorNat(a \div 2, b \div 2)

\* The xor of two 4-bit values, tabulated.
XorNibble == [a \in 0..15 |-> [b \in 0..15 |-> XorNat(a, b)]]

\* u8 ^ u8
xor8(a, b) ==
    XorNibble[a % 16][b % 16] + 16 * XorNibble[a \div 16][b \div 16]

\* The xor of two 16-bit limbs.
xor16(a, b) == xor8(a % 256, b % 256) + 256 * xor8(a \div 256, b \div 256)

\* u32 ^ u32
xor32(a, b) == <<xor16(a[1], b[1]), xor16(a[2], b[2])>>

\* 2^n for 0 <= n <= 16
Pow2(n) == CASE n = 0 -> 1 [] n = 1 -> 2 [] n = 2 -> 4 [] n = 3 -> 8
             [] n = 4 -> 16 [] n = 5 -> 32 [] n = 6 -> 64 [] n = 7 -> 128
             [] n = 8 -> 256 [] n = 9 -> 512 [] n = 10 -> 1024
             [] n = 11 -> 2048 [] n = 12 -> 4096 [] n = 13 -> 8192
             [] n = 14 -> 16384 [] n = 15 -> 32768 [] n = 16 -> 65536

\* u32::rotate_left(w, n) for 0 < n < 32
rotate_left(w, n) ==
    LET v == IF n >= 16 THEN <<w[2], w[1]>> ELSE w
        k == n % 16
        lowBits == Pow2(16 - k)
    IN  IF k = 0 THEN v
        ELSE <<(v[1] % lowBits) * Pow2(k) + (v[2] \div lowBits),
               (v[2] % lowBits) * Pow2(k) + (v[1] \div lowBits)>>

\* u32::to_le_bytes(w)
to_le_bytes(w) == <<w[1] % 256, w[1] \div 256, w[2] % 256, w[2] \div 256>>

\* ------------------------------------------------------------------------
\* Build targets
\* ------------------------------------------------------------------------

VARIABLES
    arch,       \* the compilation target (fixed for a run)
    status,     \* "none" before construction, then "ok" | "exhausted" | "rejected" | "panicked"
    state,      \* SalsaCore.state: 16 u32 words, <<>> while no object exists
    key,        \* the key given to the last construction
    iv,         \* the nonce given to the last construction
    via,        \* "new" | "raw" | "raw_arbitrary": how the object was built
    state0,     \* the state array as the constructor left it
    lastOp,     \* the last operation that acted on the object
    seekPos,    \* the position of the last seek, <<>> if none
    produced,   \* blocks produced since construction or the last seek
    block,      \* the keystream block the last operation returned, <<>> if none
    buffer,     \* the buffering wrapper's current keystream block
    cursor,     \* the wrapper's byte position within buffer (0: none buffered)
    step,       \* progress of seek(0); apply; seek(0); apply on one buffer
    orig,       \* that buffer's contents before the first apply
    data,       \* that buffer's current contents
    klen,       \* the argument of the last call of constants(), -1 if none
    kout        \* what that call returned, <<>> if none

vars == <<arch, status, state, key, iv, via, state0, lastOp, seekPos,
          produced, block, buffer, cursor, step, orig, data, klen, kout>>

constVars == <<klen, kout>>

coreVars == <<status, state, key, iv, via, state0, lastOp, seekPos,
              produced, block>>

streamVars == <<buffer, cursor, step, orig, data>>

\* The targets: the two the cfg_if! conditions name, and one 32-bit and one
\* 64-bit target that take the other branch.
Archs == {"x86", "x86_64", "arm", "aarch64"}

\* #[cfg(any(target_arch = "x86", target_arch = "x86_64"))]
X86 == arch \in {"x86", "x86_64"}

\* The width of usize on the target, in bits.
UsizeBits == IF arch \in {"x86", "arm"} THEN 32 ELSE 64

\* Word i (0-based, as in the Rust source) of a state array.
W(st, i) == st[i + 1]

\* ------------------------------------------------------------------------
\* Key expansion constants
\* ------------------------------------------------------------------------

\* b"expand "
KEY_CONSTANTS_START == <<101, 120, 112, 97, 110, 100, 32>>

\* b"-byte k"
KEY_CONSTANTS_END == <<45, 98, 121, 116, 101, 32, 107>>

\* `key_len as u8`: the cast keeps the low 8 bits.
as_u8(n) == n % 256

\* A faulty variant of constants(): the words of "expand 32-byte k" whatever
\* the key length, as in a cipher without key-length separation.
constants_fixed(key_len) ==
    << from_le_bytes(101, 120, 112, 97), from_le_bytes(110, 100, 32, 51),
       from_le_bytes(50, 45, 98, 121), from_le_bytes(116, 101, 32, 107) >>

\* pub const fn constants(key_len: usize) -> [u32; 4]
constants(key_len) ==
    LET cast == as_u8(key_len)
        key_len_byte == IF cast > 99 THEN 99 ELSE cast
        ascii_first_digit == 48 + (key_len_byte \div 10)
        ascii_second_digit == 48 + (key_len_byte % 10)
    IN  << from_le_bytes(KEY_CONSTANTS_START[1], KEY_CONSTANTS_START[2],
                         KEY_CONSTANTS_START[3], KEY_CONSTANTS_START[4]),
           from_le_bytes(KEY_CONSTANTS_START[5], KEY_CONSTANTS_START[6],
                         KEY_CONSTANTS_START[7], ascii_first_digit),
           from_le_bytes(ascii_second_digit, KEY_CONSTANTS_END[1],
                         KEY_CONSTANTS_END[2], KEY_CONSTANTS_END[3]),
           from_le_bytes(KEY_CONSTANTS_END[4], KEY_CONSTANTS_END[5],
                         KEY_CONSTANTS_END[6], KEY_CONSTANTS_END[7]) >>

\* ------------------------------------------------------------------------
\* Construction
\* ------------------------------------------------------------------------

\* Number of 32-bit words in the Salsa20 state
STATE_WORDS == 16

Min(a, b) == IF a <= b THEN a ELSE b

\* slice.chunks(4): consecutive chunks of 4 bytes, the last one shorter when
\* the length is not a multiple of 4.
chunks(s) ==
    [i \in 1..((Len(s) + 3) \div 4) |->
        SubSeq(s, 4 * (i - 1) + 1, Min(4 * i, Len(s)))]

\* chunk.try_into().unwrap() for [u8; 4]: panics on a chunk that is not 4
\* bytes long.
unwrap_panics(chunk) == Len(chunk) # 4

\* for (i, chunk) in s.chunks(4).enumerate() { state[base + i] = ... }
\* The words written by the chunks that convert; a short chunk panics
\* (see LoopPanics) and writes nothing.
store_chunks(st, base, s) ==
    LET cs == chunks(s)
    IN  [j \in 1..Len(st) |->
            IF /\ j - 1 >= base
               /\ j - 1 < base + Len(cs)
               /\ ~unwrap_panics(cs[j - base])
            THEN LET c == cs[j - base] IN from_le_bytes(c[1], c[2], c[3], c[4])
            ELSE st[j]]

\* Whether the loop over s.chunks(4) panics.
LoopPanics(s) == \E i \in 1..Len(chunks(s)) : unwrap_panics(chunks(s)[i])

\* key[..key.len().min(16)]
key_head(k) == SubSeq(k, 1, Min(Len(k), 16))

\* A faulty variant of key_tail(): the first 16 key bytes again instead of
\* the last 16.
key_tail_first_half(k) == SubSeq(k, 1, Min(Len(k), 16))

\* key[key.len().saturating_sub(16)..]
key_tail(k) ==
    LET from == IF Len(k) >= 16 THEN Len(k) - 16 ELSE 0
    IN  SubSeq(k, from + 1, Len(k))

\* The body of KeyIvInit::new up to the target-dependent permutation: the
\* state in the cipher's logical word order.
key_schedule(k, n) ==
    LET c  == constants(Len(k))
        s0 == [j \in 1..STATE_WORDS |-> Zero32]
        s1 == [s0 EXCEPT ![1] = c[1]]
        s2 == store_chunks(s1, 1, key_head(k))
        s3 == [s2 EXCEPT ![6] = c[2]]
        s4 == store_chunks(s3, 6, n)
        s5 == [s4 EXCEPT ![9] = Zero32, ![10] = Zero32, ![11] = c[3]]
        s6 == store_chunks(s5, 11, key_tail(k))
    IN  [s6 EXCEPT ![16] = c[4]]

\* The source index of each stored word in the x86 branch of new():
\* state = [state[0], state[5], state[10], state[15], state[4], ...]
X86_ORDER == <<0, 5, 10, 15, 4, 9, 14, 3, 8, 13, 2, 7, 12, 1, 6, 11>>

\* The cfg_if! block at the end of new().
layout(st) ==
    IF X86 THEN [j \in 1..STATE_WORDS |-> W(st, X86_ORDER[j])] ELSE st

\* A faulty variant of new(): a chunk that does not convert is skipped
\* instead of panicking, so an object is built from any key.
new_unchecked(k, n) ==
    [ok |-> TRUE, state |-> layout(key_schedule(k, n))]

\* KeyIvInit::new(key, iv).  ok = FALSE when an unwrap() panics; no object
\* exists then.
new(k, n) ==
    IF LoopPanics(key_head(k)) \/ LoopPanics(n) \/ LoopPanics(key_tail(k))
    THEN [ok |-> FALSE, state |-> <<>>]
    ELSE [ok |-> TRUE, state |-> layout(key_schedule(k, n))]

\* SalsaCore::from_raw_state(state): the array is stored as given.
from_raw_state(raw) == raw

\* ------------------------------------------------------------------------
\* Block counter
\* ------------------------------------------------------------------------

\* The index of the state word that holds the high half of the counter.
HighWord == IF X86 THEN 5 ELSE 9

\* A faulty variant of get_block_pos(): the high half is read from word 9
\* on every target.
get_block_pos_scalar_only(st) ==
    wrapping_add(as_u64(W(st, 8)), shl32(as_u64(W(st, 9))))

\* StreamCipherSeekCore::get_block_pos
get_block_pos(st) ==
    wrapping_add(as_u64(W(st, 8)), shl32(as_u64(W(st, HighWord))))

\* A faulty variant of set_block_pos(): the high half is written to word 9
\* on every target.
set_block_pos_scalar_only(st, pos) ==
    [st EXCEPT ![8 + 1] = as_u32(and_ffffffff(pos)),
               ![9 + 1] = as_u32(and_ffffffff(shr32(pos)))]

\* A faulty variant of set_block_pos(): only the low half is stored.
set_block_pos_low_only(st, pos) ==
    [st EXCEPT ![8 + 1] = as_u32(and_ffffffff(pos))]

\* A faulty variant of set_block_pos(): the halves are added to the counter
\* words (`+=`) instead of replacing them.
set_block_pos_relative(st, pos) ==
    [st EXCEPT ![8 + 1] = wrapping_add32(@, as_u32(and_ffffffff(pos))),
               ![HighWord + 1] =
                   wrapping_add32(@, as_u32(and_ffffffff(shr32(pos))))]

\* StreamCipherSeekCore::set_block_pos
set_block_pos(st, pos) ==
    [st EXCEPT ![8 + 1] = as_u32(and_ffffffff(pos)),
               ![HighWord + 1] = as_u32(and_ffffffff(shr32(pos)))]

\* A faulty variant of try_into_usize(): a truncating `as usize` cast, which
\* always yields a value.
as_usize(x) ==
    [some |-> TRUE,
     val |-> IF UsizeBits = 64 THEN x ELSE <<x[1], x[2], 0, 0>>]

\* Option<usize> from u64::try_into().ok()
try_into_usize(x) ==
    IF UsizeBits = 64 \/ (x[3] = 0 /\ x[4] = 0)
    THEN [some |-> TRUE, val |-> x]
    ELSE [some |-> FALSE, val |-> Zero64]

\* StreamCipherCore::remaining_blocks
remaining_blocks(st) ==
    LET rem == sub64(U64_MAX, get_block_pos(st))
    IN  try_into_usize(rem)

\* ------------------------------------------------------------------------
\* Block production (the round function and the backends)
\* ------------------------------------------------------------------------

\* One step of a quarter round, q = <<t, x, y, r>>:
\*   st[t] ^= rotl(st[x] + st[y], r)
mix(st, q) ==
    [st EXCEPT ![q[1] + 1] =
        xor32(@, rotate_left(wrapping_add32(W(st, q[2]), W(st, q[3])), q[4]))]

\* The steps lo, lo+1, ..., hi of the list qs applied to st, in order (the
\* first half of the range, then the second half on its result).
RECURSIVE mix_range(_, _, _, _)
mix_range(st, qs, lo, hi) ==
    IF lo = hi THEN mix(st, qs[lo])
    ELSE Let(mix_range(st, qs, lo, (lo + hi) \div 2), LAMBDA s :
             mix_range(s, qs, ((lo + hi) \div 2) + 1, hi))

\* The steps of the quarter round on the words a, b, c, d (0-based):
\*   b ^= rotl(a+d, 7); c ^= rotl(b+a, 9); d ^= rotl(c+b, 13); a ^= rotl(d+c, 18)
quarter_steps(a, b, c, d) ==
    << <<b, a, d, 7>>, <<c, b, a, 9>>, <<d, c, b, 13>>, <<a, d, c, 18>> >>

\* Quarter round on the words a, b, c, d of st.
quarter_round(st, a, b, c, d) == mix_range(st, quarter_steps(a, b, c, d), 1, 4)

\* The steps of a double round: the quarter rounds of the four columns,
\* then those of the four rows.
DOUBLE_ROUND_STEPS ==
    quarter_steps(0, 4, 8, 12) \o quarter_steps(5, 9, 13, 1)
        \o quarter_steps(10, 14, 2, 6) \o quarter_steps(15, 3, 7, 11)
        \o quarter_steps(0, 1, 2, 3) \o quarter_steps(5, 6, 7, 4)
        \o quarter_steps(10, 11, 8, 9) \o quarter_steps(15, 12, 13, 14)

\* The four column quarter rounds, then the four row quarter rounds.
double_round(st) == mix_range(st, DOUBLE_ROUND_STEPS, 1, Len(DOUBLE_ROUND_STEPS))

\* n double rounds (the first half of them, then the rest on the result).
RECURSIVE run_rounds(_, _)
run_rounds(st, n) ==
    IF n = 0 THEN st
    ELSE IF n = 1 THEN double_round(st)
    ELSE Let(run_rounds(st, n \div 2), LAMBDA s :
             run_rounds(s, n - (n \div 2)))

\* The words serialized little-endian, in word order.
serialize(ws) ==
    [i \in 1..(4 * Len(ws)) |->
        to_le_bytes(ws[((i - 1) \div 4) + 1])[((i - 1) % 4) + 1]]

\* The logical word order of a stored state array: the stored array itself
\* on the scalar layout, the inverse of the x86 permutation otherwise.
logical_view(st) ==
    IF X86
    THEN [j \in 1..STATE_WORDS |->
            st[CHOOSE k \in 1..STATE_WORDS : X86_ORDER[k] = j - 1]]
    ELSE st

\* One 64-byte keystream block of the state st with n double rounds: the
\* rounds output plus the pre-round words, element-wise mod 2^32.
keystream_block(st, n) ==
    Let(logical_view(st), LAMBDA x :
    Let(run_rounds(x, n), LAMBDA y :
        serialize([j \in 1..STATE_WORDS |-> wrapping_add32(y[j], x[j])])))

\* Salsa20 = StreamCipherCoreWrapper<SalsaCore<U10, U32>>: R = U10 double
\* rounds.
R == 10

\* StreamCipherCore::process_with_backend with a closure that asks the
\* backend for one keystream block: the block of the current state, then
\* the counter raised by one through the counter accessors.  At position
\* 2^64 - 1 the counter cannot be raised: production fails loudly and
\* the state is left as it is.
process_with_backend(st) ==
    Let(get_block_pos(st), LAMBDA pos :
        IF AddOverflows(pos, U64(1))
        THEN [ok |-> FALSE, state |-> st, block |-> <<>>]
        ELSE [ok |-> TRUE,
              state |-> set_block_pos(st, wrapping_add(pos, U64(1))),
              block |-> keystream_block(st, R)])

\* ------------------------------------------------------------------------
\* Inputs
\* ------------------------------------------------------------------------

\* Blocks produced between two seeks.
MaxProduced == 3

\* A key of len bytes, all different: byte i is (seed + 7 * i) mod 256.
KeyOf(len, seed) == [i \in 1..len |-> (seed + 7 * i) % 256]

\* Keys of the two standard lengths (the 16-byte key is the first half of
\* the 32-byte key) and keys of other lengths that the generic parameter K
\* admits; DocKey is the key of the crate's doc example.
DocKey == [i \in 1..32 |-> 66]

Keys ==
    { KeyOf(16, 3), KeyOf(32, 3), KeyOf(20, 3), KeyOf(8, 3), KeyOf(10, 3),
      KeyOf(40, 3) }

StandardKeys == {k \in Keys : Len(k) \in {16, 32}}

\* Nonces: 8 bytes (the Nonce type), and byte strings of other lengths, which
\* are not values of that type.
Nonces ==
    { <<241, 242, 243, 244, 245, 246, 247, 248>>, [i \in 1..8 |-> 36],
      <<1, 2, 3, 4, 5, 6, 7>>, [i \in 1..24 |-> i] }

\* Raw states a caller may hand to from_raw_state: the key schedule's
\* logical states, and an arbitrary array.
ArbitraryRaw == [j \in 1..STATE_WORDS |-> <<j, 256 + j>>]

\* Seek targets: both ends of the counter range, both sides of the 2^32
\* boundary, and a position with four different limbs.
SeekPositions ==
    { Zero64, U64(1), <<LIMB - 1, LIMB - 1, 0, 0>>, <<0, 0, 1, 0>>,
      <<LIMB - 2, LIMB - 1, LIMB - 1, LIMB - 1>>, U64_MAX,
      <<52719, 35243, 17767, 291>>, <<LIMB - 1, LIMB - 1, 7, 0>> }

\* ------------------------------------------------------------------------
\* The core object: construction, seek, block production
\* ------------------------------------------------------------------------

NoConstants ==
    /\ klen = -1
    /\ kout = <<>>

NoStream ==
    /\ buffer = <<>>
    /\ cursor = 0
    /\ step = 0
    /\ orig = <<>>
    /\ data = <<>>

\* An object exists (production past the last block leaves it in place).
Alive == status \in {"ok", "exhausted"}

Init ==
    /\ arch \in Archs
    /\ status = "none"
    /\ state = <<>>
    /\ key = <<>>
    /\ iv = <<>>
    /\ via = "none"
    /\ state0 = <<>>
    /\ lastOp = "none"
    /\ seekPos = <<>>
    /\ produced = 0
    /\ block = <<>>
    /\ NoStream
    /\ NoConstants

\* SalsaCore::new(&key, &iv).  A nonce that is not 8 bytes long is not a
\* value of type Nonce = Array<u8, U8>: the call is rejected.
New(k, n) ==
    /\ status = "none"
    /\ key' = k
    /\ iv' = n
    /\ via' = "new"
    /\ lastOp' = "new"
    /\ IF Len(n) # 8
       THEN /\ status' = "rejected"
            /\ UNCHANGED <<state, state0>>
       ELSE \E r \in {new(k, n)} :
                /\ status' = IF r.ok THEN "ok" ELSE "panicked"
                /\ state' = r.state
                /\ state0' = r.state
    /\ UNCHANGED <<arch, seekPos, produced, block, streamVars, constVars>>

\* SalsaCore::from_raw_state(key_schedule(k, n)): the caller passes the
\* logical state of a key and nonce.
FromRawState(k, n) ==
    /\ status = "none"
    /\ key' = k
    /\ iv' = n
    /\ via' = "raw"
    /\ lastOp' = "raw"
    /\ status' = "ok"
    /\ state' = from_raw_state(key_schedule(k, n))
    /\ state0' = state'
    /\ UNCHANGED <<arch, seekPos, produced, block, streamVars, constVars>>

\* SalsaCore::from_raw_state(raw) on an array that is no key schedule.
FromArbitraryState ==
    /\ status = "none"
    /\ via' = "raw_arbitrary"
    /\ lastOp' = "raw"
    /\ status' = "ok"
    /\ state' = from_raw_state(ArbitraryRaw)
    /\ state0' = state'
    /\ UNCHANGED <<arch, key, iv, seekPos, produced, block, streamVars,
                   constVars>>

\* set_block_pos(pos): no precondition beyond the object existing; an
\* object that refused to produce at 2^64 - 1 can be repositioned and
\* produces again.
Seek(pos) ==
    /\ Alive
    /\ state' = set_block_pos(state, pos)
    /\ status' = "ok"
    /\ seekPos' = pos
    /\ produced' = 0
    /\ block' = <<>>
    /\ lastOp' = "seek"
    /\ UNCHANGED <<arch, key, iv, via, state0, streamVars, constVars>>

\* One keystream block through process_with_backend.
ProduceBlock ==
    /\ Alive
    /\ produced < MaxProduced
    /\ \E r \in {process_with_backend(state)} :
           /\ state' = r.state
           /\ block' = r.block
           /\ status' = IF r.ok THEN "ok" ELSE "exhausted"
           /\ produced' = IF r.ok THEN produced + 1 ELSE produced
    /\ lastOp' = "produce"
    /\ UNCHANGED <<arch, key, iv, via, state0, seekPos, streamVars, constVars>>

Next ==
    \/ \E k \in Keys, n \in Nonces : New(k, n)
    \/ \E k \in StandardKeys, n \in {x \in Nonces : Len(x) = 8} :
          FromRawState(k, n)
    \/ FromArbitraryState
    \/ \E pos \in SeekPositions : Seek(pos)
    \/ ProduceBlock

Spec == Init /\ [][Next]_vars

\* ------------------------------------------------------------------------
\* The constants() function on its own
\* ------------------------------------------------------------------------

\* Key lengths passed to constants().
MaxKeyLen == 300

ConstInit ==
    /\ arch \in Archs
    /\ status = "none"
    /\ state = <<>>
    /\ key = <<>>
    /\ iv = <<>>
    /\ via = "none"
    /\ state0 = <<>>
    /\ lastOp = "none"
    /\ seekPos = <<>>
    /\ produced = 0
    /\ block = <<>>
    /\ NoStream
    /\ NoConstants

\* constants(n)
CallConstants(n) ==
    /\ klen' = n
    /\ kout' = constants(n)
    /\ UNCHANGED <<arch, coreVars, streamVars>>

ConstNext == \E n \in 0..MaxKeyLen : CallConstants(n)

ConstSpec == ConstInit /\ [][ConstNext]_vars

\* ------------------------------------------------------------------------
\* The buffering stream wrapper around the core
\* ------------------------------------------------------------------------

\* Bytes per keystream block (BlockSize = U64).
BLOCK_SIZE == 64

\* n consecutive keystream blocks from the core state st, and the state
\* they leave.  ok = FALSE if the counter ran out on the way.
RECURSIVE gen_blocks(_, _)
gen_blocks(st, n) ==
    IF n = 0 THEN [ok |-> TRUE, state |-> st, blocks |-> <<>>]
    ELSE Let(process_with_backend(st), LAMBDA r :
             IF ~r.ok THEN [ok |-> FALSE, state |-> st, blocks |-> <<>>]
             ELSE Let(gen_blocks(r.state, n - 1), LAMBDA rest :
                      [ok |-> rest.ok, state |-> rest.state,
                       blocks |-> <<r.block>> \o rest.blocks]))

\* seek(byte_pos) of the wrapper: the core is positioned on the block that
\* holds the byte; inside a block, that block is produced and buffered and
\* its leading bytes are skipped.
stream_seek(st, pos) ==
    LET st1 == set_block_pos(st, U64(pos \div BLOCK_SIZE))
        byte_pos == pos % BLOCK_SIZE
    IN  IF byte_pos = 0
        THEN [ok |-> TRUE, state |-> st1, buffer |-> <<>>, cursor |-> 0]
        ELSE Let(process_with_backend(st1), LAMBDA r :
                 [ok |-> r.ok, state |-> r.state, buffer |-> r.block,
                  cursor |-> byte_pos])

\* apply_keystream(d) of the wrapper in the state (st, buf, cur): the bytes
\* of d xored with the next Len(d) keystream bytes: first what is left of
\* the buffered block, then new blocks, the last of which stays buffered
\* when it is not used up.
apply_keystream(st, buf, cur, d) ==
    LET total == cur + Len(d)
        used  == (total + BLOCK_SIZE - 1) \div BLOCK_SIZE
        fresh == IF cur > 0 THEN used - 1 ELSE used
    IN  Let(gen_blocks(st, fresh), LAMBDA g :
        Let(IF cur > 0 THEN <<buf>> \o g.blocks ELSE g.blocks, LAMBDA blocks :
            IF ~g.ok
            THEN [ok |-> FALSE, state |-> st, buffer |-> buf,
                  cursor |-> cur, out |-> d]
            ELSE [ok |-> TRUE, state |-> g.state,
                  buffer |-> IF total % BLOCK_SIZE = 0 THEN <<>>
                             ELSE blocks[Len(blocks)],
                  cursor |-> total % BLOCK_SIZE,
                  out |-> [i \in 1..Len(d) |->
                      xor8(d[i],
                           blocks[((cur + i - 1) \div BLOCK_SIZE) + 1]
                                 [((cur + i - 1) % BLOCK_SIZE) + 1])]]))

\* Blocks the stream may be positioned at before an apply_keystream call.
MaxBlocks == 2

\* The key, nonce and plaintext of the crate's doc example.
DocNonce == [i \in 1..8 |-> 36]
DocPlaintext == [i \in 1..16 |-> i - 1]

\* Caller buffers: the doc example's plaintext, one that spans two blocks
\* and one of exactly one block.
Buffers ==
    { DocPlaintext, [i \in 1..70 |-> (11 * i) % 256],
      [i \in 1..64 |-> 255 - i] }

\* Byte positions the caller seeks to.
StreamSeekPositions == {0, 70}

StreamInit ==
    /\ arch \in Archs
    /\ key \in {DocKey, KeyOf(16, 3)}
    /\ iv = DocNonce
    /\ status = "ok"
    /\ state = new(key, iv).state
    /\ state0 = state
    /\ via = "new"
    /\ lastOp = "new"
    /\ seekPos = <<>>
    /\ produced = 0
    /\ block = <<>>
    /\ NoStream
    /\ NoConstants

\* cipher.seek(pos).  A seek(0) starts the sequence seek(0); apply;
\* seek(0); apply, or continues it after the first apply.
StreamSeek(pos) ==
    /\ Alive
    /\ \E r \in {stream_seek(state, pos)} :
           /\ state' = r.state
           /\ buffer' = r.buffer
           /\ cursor' = r.cursor
           /\ status' = IF r.ok THEN "ok" ELSE "exhausted"
    /\ lastOp' = "seek"
    /\ IF pos = 0 /\ step = 2
       THEN /\ step' = 3
            /\ UNCHANGED <<orig, data>>
       ELSE /\ step' = IF pos = 0 THEN 1 ELSE 0
            /\ orig' = <<>>
            /\ data' = <<>>
    /\ UNCHANGED <<arch, key, iv, via, state0, seekPos, produced, block,
                   constVars>>

\* cipher.apply_keystream(&mut d).  After seek(0) it is the first apply of
\* the sequence; after seek(0); apply; seek(0) it is the second one when d
\* is the buffer the first one left.
ApplyKeystream(d) ==
    /\ Alive
    /\ get_block_pos(state)[1] < MaxBlocks
    /\ \E r \in {apply_keystream(state, buffer, cursor, d)} :
           /\ state' = r.state
           /\ buffer' = r.buffer
           /\ cursor' = r.cursor
           /\ status' = IF r.ok THEN "ok" ELSE "exhausted"
           /\ CASE step = 1 ->
                     /\ step' = 2
                     /\ orig' = d
                     /\ data' = r.out
                [] step = 3 /\ d = data ->
                     /\ step' = 4
                     /\ data' = r.out
                     /\ UNCHANGED orig
                [] OTHER ->
                     /\ step' = 0
                     /\ orig' = <<>>
                     /\ data' = <<>>
    /\ lastOp' = "apply"
    /\ UNCHANGED <<arch, key, iv, via, state0, seekPos, produced, block,
                   constVars>>

StreamNext ==
    \/ \E pos \in StreamSeekPositions : StreamSeek(pos)
    \/ \E d \in Buffers \cup {data} : ApplyKeystream(d)

StreamSpec == StreamInit /\ [][StreamNext]_vars

\* ------------------------------------------------------------------------
\* Properties
\* ------------------------------------------------------------------------

\* The bytes of a sequence of u32 words, each word least significant byte
\* first.
WordBytes(ws) ==
    [i \in 1..(4 * Len(ws)) |->
        LET w == ws[((i - 1) \div 4) + 1]
            h == w[((i - 1) % 4) \div 2 + 1]
        IN  IF i % 2 = 1 THEN h % 256 ELSE h \div 256]

\* "expand 16-byte k" and "expand 32-byte k" in ASCII.
Tau == <<101, 120, 112, 97, 110, 100, 32, 49, 54, 45, 98, 121, 116, 101, 32, 107>>
Sigma == <<101, 120, 112, 97, 110, 100, 32, 51, 50, 45, 98, 121, 116, 101, 32, 107>>
Expand99 == <<101, 120, 112, 97, 110, 100, 32, 57, 57, 45, 98, 121, 116, 101, 32, 107>>

\* The two state words that hold the counter, <<low, high>>, per target.
CounterWords ==
    IF arch \in {"x86", "x86_64"} THEN <<8, 5>> ELSE <<8, 9>>

\* C1: seek/get round trip.  In every state of a constructed object, and
\* for every position pos, get_block_pos after set_block_pos(pos) is pos;
\* and right after a seek the object reports the position sought.
C1_SeekGetRoundTrip ==
    Alive =>
        /\ \A pos \in SeekPositions :
              get_block_pos(set_block_pos(state, pos)) = pos
        /\ lastOp = "seek" => get_block_pos(state) = seekPos

\* C1 witness: on the x86 layout, a seek to a position whose four limbs
\* all differ has been made on an object built by new().
C1_Witness ==
    /\ arch = "x86_64"
    /\ via = "new"
    /\ lastOp = "seek"
    /\ seekPos = <<52719, 35243, 17767, 291>>
    /\ get_block_pos(state) = seekPos

\* C2: after construction, seek and block production leave every stored
\* word other than the two counter words of the active layout as the
\* constructor set it.
C2_Frame ==
    Alive =>
        \A i \in 0..(STATE_WORDS - 1) :
            (i # CounterWords[1] /\ i # CounterWords[2])
                => W(state, i) = W(state0, i)

\* C2 witness: blocks have been produced after a seek to a position with a
\* non-zero high half, so both counter words differ from construction.
C2_Witness ==
    /\ status = "ok"
    /\ lastOp = "produce"
    /\ produced = 2
    /\ seekPos = <<LIMB - 1, LIMB - 1, 7, 0>>
    /\ W(state, CounterWords[1]) # W(state0, CounterWords[1])
    /\ W(state, CounterWords[2]) # W(state0, CounterWords[2])

\* The position an object was constructed at: what get_block_pos reads in
\* the array the constructor stored.
StartPosition == get_block_pos(state0)

\* C3 as stated: in every state of an object the block position is the
\* position of the last seek, or 0 if none since construction, plus the
\* number of blocks produced since, as an exact integer (no carry out of
\* 64 bits, so no wrap to 0).
C3_PositionFromZero ==
    Alive =>
        get_block_pos(state) \o <<0>>
            = AddLimbs(IF seekPos = <<>> THEN Zero64 ELSE seekPos,
                       U64(produced), 0)

\* C3 amended: in every state of an object the block position is the
\* position of the last seek, or the position the object was constructed
\* at if none, plus the number of blocks produced since, as an exact
\* integer (no carry out of 64 bits, so no wrap to 0).  The constructed
\* position is 0 for new() and whatever the counter words of the given
\* array hold for from_raw_state.
C3_ExactPosition ==
    Alive =>
        /\ get_block_pos(state) \o <<0>>
              = AddLimbs(IF seekPos = <<>> THEN StartPosition ELSE seekPos,
                         U64(produced), 0)
        /\ via = "new" => StartPosition = Zero64
        /\ via \in {"raw", "raw_arbitrary"} =>
              StartPosition
                  = wrapping_add(as_u64(W(state0, CounterWords[1])),
                                 shl32(as_u64(W(state0, CounterWords[2]))))

\* C3 witness: on the scalar layout an object built by from_raw_state from
\* an arbitrary array started at a non-zero position; after a seek to
\* 2^64 - 2 and one block, production was attempted at 2^64 - 1 and the
\* position is still 2^64 - 1.
C3_Witness ==
    /\ arch = "aarch64"
    /\ via = "raw_arbitrary"
    /\ StartPosition = <<9, 265, 10, 266>>
    /\ status = "exhausted"
    /\ produced = 1
    /\ seekPos = <<LIMB - 2, LIMB - 1, LIMB - 1, LIMB - 1>>
    /\ get_block_pos(state) = U64_MAX

\* 2^64 - 1 - pos: every limb of pos complemented.
RemainingOf(pos) == [j \in 1..4 |-> (LIMB - 1) - pos[j]]

\* C4 as stated: remaining_blocks() always reports 2^64 - 1 - position as
\* a 64-bit value.
C4_AlwaysReportsRemaining ==
    Alive =>
        remaining_blocks(state)
            = [some |-> TRUE, val |-> RemainingOf(get_block_pos(state))]

\* C4 amended: remaining_blocks() reports 2^64 - 1 - position whenever
\* that value fits usize (always on a 64-bit target) and None otherwise;
\* it reports 0 exactly when the position is 2^64 - 1.
C4_ReportsRemainingIfItFits ==
    Alive =>
        LET rem  == RemainingOf(get_block_pos(state))
            fits == arch \in {"x86_64", "aarch64"} \/ (rem[3] = 0 /\ rem[4] = 0)
            got  == remaining_blocks(state)
        IN  /\ fits => got = [some |-> TRUE, val |-> rem]
            /\ ~fits => ~got.some
            /\ (got.some /\ got.val = Zero64) <=> get_block_pos(state) = U64_MAX

\* C4 witness: on a 32-bit target, after a seek to 2^64 - 1, zero blocks
\* are reported to remain.
C4_Witness ==
    /\ arch = "x86"
    /\ lastOp = "seek"
    /\ seekPos = U64_MAX
    /\ remaining_blocks(state) = [some |-> TRUE, val |-> Zero64]

\* The 64 bytes of the logical state the key schedule is to build from a
\* key k of 16 or 32 bytes and a nonce n, with the constant string c.
ExpectedBytes(c, k, n) ==
    SubSeq(c, 1, 4) \o SubSeq(k, 1, 16) \o SubSeq(c, 5, 8) \o n
        \o <<0, 0, 0, 0, 0, 0, 0, 0>> \o SubSeq(c, 9, 12)
        \o SubSeq(k, Len(k) - 15, Len(k)) \o SubSeq(c, 13, 16)

\* C5: for a 16- or 32-byte key and an 8-byte nonce, new() builds the
\* logical state constant0, key[0..16], constant1, nonce, 0, 0, constant2,
\* the last 16 key bytes, constant3, every word little-endian; the stored
\* array is that state on the scalar layout and a bijective permutation of
\* it on the x86 layout; the fresh object is at block position 0.
C5_KeySchedule ==
    (via = "new" /\ Alive /\ Len(key) \in {16, 32}) =>
        LET want == ExpectedBytes(IF Len(key) = 16 THEN Tau ELSE Sigma, key, iv)
            got  == WordBytes(state0)
            at(i) == IF arch \in {"x86", "x86_64"} THEN X86_ORDER[i] ELSE i - 1
        IN  /\ {at(i) : i \in 1..STATE_WORDS} = 0..(STATE_WORDS - 1)
            /\ \A i \in 1..STATE_WORDS :
                  SubSeq(got, 4 * i - 3, 4 * i)
                      = SubSeq(want, 4 * at(i) + 1, 4 * at(i) + 4)
            /\ get_block_pos(state0) = Zero64

\* C5 witness: new() has just built an object from the 32-byte key on the
\* x86 layout.
C5_Witness ==
    /\ arch = "x86_64"
    /\ lastOp = "new"
    /\ status = "ok"
    /\ key = KeyOf(32, 3)
    /\ Len(iv) = 8
    /\ state = state0

\* C6: constants(16) is "expand 16-byte k" and constants(32) is "expand
\* 32-byte k" as little-endian words; the two differ, and a 16-byte key
\* and a 32-byte key with the same first 16 bytes get different states.
C6_Constants ==
    /\ klen = 16 => WordBytes(kout) = Tau
    /\ klen = 32 => WordBytes(kout) = Sigma
    /\ klen \in {16, 32} =>
          /\ kout # constants(48 - klen)
          /\ new(SubSeq(DocKey, 1, 16), DocNonce).state
                # new(DocKey, DocNonce).state
          /\ new(KeyOf(16, 3), DocNonce).state
                # new(KeyOf(32, 3), DocNonce).state

\* C6 witness: constants(16) has been called.
C6_Witness ==
    /\ klen = 16
    /\ WordBytes(kout) = Tau

\* C7 as stated: for every key length >= 100, constants() returns the
\* words of "expand 99-byte k".
C7_ClampedTo99 ==
    klen >= 100 => WordBytes(kout) = Expand99

\* C7 divergence: constants(256) has been called and returned the words of
\* "expand 00-byte k".
C7_Witness ==
    /\ klen = 256
    /\ WordBytes(kout)
          = <<101, 120, 112, 97, 110, 100, 32, 48, 48, 45, 98, 121, 116, 101, 32, 107>>

\* C8 as stated: construction is rejected, and no state exists, whenever
\* the key is not 16 or 32 bytes long or the nonce is not 8 bytes long.
C8_RejectsOtherLengths ==
    (lastOp = "new" /\ (Len(key) \notin {16, 32} \/ Len(iv) # 8)) =>
        (status \in {"rejected", "panicked"} /\ state = <<>>)

\* C8 amended: construction is rejected, and no state exists, exactly when
\* the nonce is not 8 bytes long or the key is shorter than 16 bytes with
\* a length that is not a multiple of 4; every other key length yields an
\* object with a 16-word state.
C8_RejectsUnconvertible ==
    lastOp = "new" =>
        LET refused == Len(iv) # 8 \/ (Len(key) < 16 /\ Len(key) % 4 # 0)
        IN  /\ refused => (status \in {"rejected", "panicked"} /\ state = <<>>)
            /\ ~refused => (status = "ok" /\ Len(state) = STATE_WORDS)

\* C8 witness: new() was called with a 10-byte key and an 8-byte nonce,
\* and no object exists.
C8_Witness ==
    /\ lastOp = "new"
    /\ Len(key) = 10
    /\ Len(iv) = 8
    /\ status = "panicked"
    /\ state = <<>>

\* C9: seek(0); apply_keystream(buf); seek(0); apply_keystream(buf)
\* leaves buf with its original contents.
C9_Involution ==
    step = 4 => data = orig

\* C9 witness: the sequence has been completed on the buffer that spans
\* two blocks.
C9_Witness ==
    /\ step = 4
    /\ Len(orig) = 70
    /\ key = DocKey
    /\ data = orig
    /\ lastOp = "apply"

\* C10 as stated: from_raw_state on the logical state of the key schedule
\* gives the object new() gives, at block position 0, on both layouts.
C10_RawStateIsLayoutAware ==
    (via = "raw" /\ lastOp = "raw") =>
        /\ state = new(key, iv).state
        /\ get_block_pos(state) = Zero64

\* C10 divergence: on the x86 layout from_raw_state has stored the logical
\* state of the key schedule, and the object reports constant1 << 32 as
\* its block position.
C10_Witness ==
    /\ arch = "x86_64"
    /\ via = "raw"
    /\ lastOp = "raw"
    /\ state = key_schedule(key, iv)
    /\ state # new(key, iv).state
    /\ get_block_pos(state) = <<0, 0>> \o constants(Len(key))[2]

====
